---- MODULE Spec2Model ----
(***************************************************************************)
(* Model of the max-flow engine of src/src/ford_fulkerson.py: the          *)
(* FordFulkerson class (constructor validation, residual matrix, the       *)
(* depth-first augmenting-path search, the augmentation loop of            *)
(* find_max_flow, _compute_flow, _compute_min_cut and the reporting        *)
(* methods).  One instance is modelled; its lifecycle is                   *)
(*   new -> (invalid_input | ready) -> searching <-> augmenting -> done.   *)
(***************************************************************************)
EXTENDS Integers, Sequences, FiniteSets, TLC

(* ----------------------------- bounds ---------------------------------- *)
\* largest number of edges of the exhaustively enumerated networks
MaxEdges == 3
\* largest capacity of the exhaustively enumerated networks
MaxCap == 1
\* largest node count and largest number of edges of the networks enumerated
\* with arbitrary (possibly negative, non-numeric or missing) capacity
\* attributes and arbitrary (possibly missing or equal) terminals
MaxRawNodes == 2
MaxRawEdges == 1
\* largest iteration cap of the runs made with a lowered MAX_ITERATIONS
MaxIterationCap == 3
\* most edges of the graphs handed to enforce_constraints
MaxConstraintEdges == 3
\* largest capacity passed to add_or_update_edge_no_bidirectional
MaxEdgeCap == 2
\* most calls of find_max_flow made on one instance
MaxCalls == 2

(* ------------------------- program constants --------------------------- *)
MAX_NODES == 16
MAX_ITERATIONS == 10000

(* ------------------------------ graphs --------------------------------- *)
\* Node identifiers.  The callers build graphs whose nodes are str(i).
NodeNames ==
  <<"0", "1", "2", "3", "4", "5", "6", "7", "8",
    "9", "10", "11", "12", "13", "14", "15", "16">>

\* An identifier that is a node of no graph.
Outsider == "99"

\* int(x) of a node identifier: defined on decimal literals only.
IsIntLiteral(x) == \E i \in 1..Len(NodeNames) : NodeNames[i] = x
IntValue(x) == (CHOOSE i \in 1..Len(NodeNames) : NodeNames[i] = x) - 1

\* The attribute dictionary of an edge: 'capacity' holds an int, holds a
\* non-numeric object, or is absent.
IntData(c) == [type |-> "int", capacity |-> c]
StrData == [type |-> "str", capacity |-> 0]
NoData == [type |-> "missing", capacity |-> 0]

\* data.get('capacity', 0)
GetCapacity(data) == IF data.type = "missing" THEN 0 ELSE data.capacity

\* isinstance(capacity, (int, float)) applied to data.get('capacity', 0)
IsNumeric(data) == data.type # "str"

Range(s) == {s[i] : i \in 1..Len(s)}

\* A graph is [nodes |-> sequence of identifiers in insertion order,
\*             adj   |-> function from its edges <<u, v>> to attribute data].
HasEdge(G, u, v) == <<u, v>> \in DOMAIN G.adj

\* position of a node in G.nodes(), 0-based (node_to_idx)
IndexOf(nodes, x) == (CHOOSE i \in 1..Len(nodes) : nodes[i] = x) - 1

\* G.edges(): by origin in node order, then by destination in node order.
NodePairs(G) ==
  LET n == Len(G.nodes) IN
  [k \in 1..(n * n) |-> <<G.nodes[((k - 1) \div n) + 1], G.nodes[((k - 1) % n) + 1]>>]

Edges(G) == SelectSeq(NodePairs(G), LAMBDA e : e \in DOMAIN G.adj)

Capacity(G, e) == GetCapacity(G.adj[e])

RECURSIVE SumSeq(_)
SumSeq(s) == IF s = <<>> THEN 0 ELSE Head(s) + SumSeq(Tail(s))

RECURSIVE SumOver(_, _)
SumOver(S, f) ==
  IF S = {} THEN 0
  ELSE LET x == CHOOSE y \in S : TRUE IN f[x] + SumOver(S \ {x}, f)

(* ------------------------------ inputs --------------------------------- *)
FirstNodes(n) == SubSeq(NodeNames, 1, n)

Pairs(n) == {e \in Range(FirstNodes(n)) \X Range(FirstNodes(n)) : e[1] # e[2]}

EdgeSets(n, k) == {E \in SUBSET Pairs(n) : Cardinality(E) <= k}

GraphsOn(n, k, data) ==
  UNION {{[nodes |-> FirstNodes(n), adj |-> f] : f \in [E -> data]} :
         E \in EdgeSets(n, k)}

\* a constructor call: the graph and the two terminals
Call(g, s, t) == [G |-> g, fuente |-> s, sumidero |-> t]

CallsOn(graphs) ==
  UNION {{Call(g, s, t) : s, t \in Range(g.nodes)} : g \in graphs}

\* every network of two or three nodes and at most MaxEdges edges with
\* integer capacities 0..MaxCap (zero-capacity, anti-parallel, into-source
\* and out-of-sink edges included), with every pair of distinct terminals
CoreGraphs ==
  UNION {GraphsOn(n, MaxEdges, {IntData(c) : c \in 0..MaxCap}) : n \in {2, 3}}

CoreCalls == {c \in CallsOn(CoreGraphs) : c.fuente # c.sumidero}

\* networks whose capacity attributes may be negative, non-numeric or
\* absent, with terminals that may coincide or be no node
RawData == {IntData(c) : c \in -1..1} \cup {StrData, NoData}

RawGraphs ==
  UNION {GraphsOn(n, MaxRawEdges, RawData) : n \in 2..MaxRawNodes}

RawCalls ==
  UNION {{Call(g, s, t) : s, t \in Range(g.nodes) \cup {Outsider}} :
         g \in RawGraphs}

\* networks at the node limit and one above it, without edges or with the
\* single edge 0 -> 15
BigGraphs ==
  UNION {{[nodes |-> FirstNodes(n), adj |-> <<>>],
          [nodes |-> FirstNodes(n),
           adj |-> [e \in {<<"0", "15">>} |-> IntData(1)]]} :
         n \in {MAX_NODES, MAX_NODES + 1}}

BigCalls ==
  UNION {{Call(g, s, t) : s, t \in {"0", "15", Outsider}} : g \in BigGraphs}

\* four nodes with a cross edge, every capacity 1, 2 or 3: a later search
\* has to undo flow through the reverse arc 2 -> 1
DiamondEdges == {<<"0", "1">>, <<"0", "2">>, <<"1", "2">>, <<"1", "3">>, <<"2", "3">>}

DiamondGraphs ==
  {[nodes |-> FirstNodes(4), adj |-> f] :
     f \in [DiamondEdges -> {IntData(c) : c \in {1, 2, 3}}]}

DiamondCalls == {c \in CallsOn(DiamondGraphs) : c.fuente # c.sumidero}

\* scenario 1 of the specification: A->B 10, A->C 5, B->D 8, C->D 10
ScenarioOne ==
  [nodes |-> <<"A", "B", "C", "D">>,
   adj |-> (<<"A", "B">> :> IntData(10)) @@ (<<"A", "C">> :> IntData(5)) @@
           (<<"B", "D">> :> IntData(8)) @@ (<<"C", "D">> :> IntData(10))]

\* scenario 2 of the specification: a single edge of capacity 7
ScenarioTwo ==
  [nodes |-> <<"0", "1">>, adj |-> (<<"0", "1">> :> IntData(7))]

ScenarioCalls == {Call(ScenarioOne, "A", "D"), Call(ScenarioTwo, "0", "1")}

\* three nodes with self-loops on 0 and 1 and the anti-parallel pair 0 <-> 1,
\* every capacity 1 or 2: the constructor accepts self-loops
LoopEdges ==
  {<<"0", "0">>, <<"0", "1">>, <<"0", "2">>, <<"1", "0">>, <<"1", "1">>,
   <<"1", "2">>}

LoopGraphs ==
  {[nodes |-> FirstNodes(3), adj |-> f] :
     f \in [LoopEdges -> {IntData(c) : c \in {1, 2}}]}

LoopCalls == {c \in CallsOn(LoopGraphs) : c.fuente # c.sumidero}

Calls ==
  CoreCalls \cup RawCalls \cup BigCalls \cup DiamondCalls \cup ScenarioCalls
    \cup LoopCalls

\* the accepted networks run with a lowered iteration cap
CapCalls == CoreCalls \cup DiamondCalls \cup ScenarioCalls

(* ------------------------------- state --------------------------------- *)
VARIABLES
  G, fuente, sumidero,      \* the arguments of the constructor
  max_iterations,           \* self.MAX_ITERATIONS as the instance reads it
  phase,                    \* position in the lifecycle of the instance
  raised,                   \* the exception that ended the last call
  G_original, nodes, residual, flow, max_flow_value, augmenting_paths,
  min_cut_S, min_cut_T, cut_edges, cut_capacity,        \* instance fields
  max_flow, iterations, parent, path_flow, path_indices,  \* locals of find_max_flow
  ret,                      \* the last reporting call and what it returned
  returned,                 \* what each call of find_max_flow returned and left
  other                     \* a second instance built from the same graph

args == <<G, fuente, sumidero, max_iterations>>
fields == <<G_original, nodes, residual, flow, max_flow_value,
            augmenting_paths, min_cut_S, min_cut_T, cut_edges, cut_capacity>>
locals == <<max_flow, iterations, parent, path_flow, path_indices>>
vars == <<args, phase, raised, fields, locals, ret, returned, other>>

NoGraph == [nodes |-> <<>>, adj |-> <<>>]
NoRet == [op |-> "none", val |-> <<>>]

\* the fields of the second instance before its construction; the phase is
\* "absent" when the caller builds no second instance
OtherAt(ph) ==
  [phase |-> ph, G_original |-> NoGraph, residual |-> <<>>, flow |-> <<>>,
   max_flow_value |-> 0, augmenting_paths |-> <<>>, min_cut_S |-> {},
   min_cut_T |-> {}, cut_edges |-> <<>>, cut_capacity |-> 0]

NoOther == OtherAt("absent")

\* variant: one matrix held by the class for all its instances
ResidualAddress_Class(instance) == 0

\* "self.residual = [[0] * n for _ in range(n)]": __init__ makes a new list
\* of new rows for the instance it builds; the lists are told apart by the
\* number of the instance (1 for the instance of the fields above, 2 for
\* the second instance)
ResidualAddress(instance) == instance

\* the second instance after the first has written res to its matrix: it
\* reads the same cells when the two hold the same list
OtherAfterWrite(res) ==
  IF other.phase \in {"ready", "done"} /\ ResidualAddress(2) = ResidualAddress(1)
  THEN [other EXCEPT !.residual = res]
  ELSE other

\* no instance built yet, no call made
Fresh ==
  /\ phase = "new"
  /\ raised = "none"
  /\ G_original = NoGraph
  /\ nodes = <<>>
  /\ residual = <<>>
  /\ flow = <<>>
  /\ max_flow_value = 0
  /\ augmenting_paths = <<>>
  /\ min_cut_S = {}
  /\ min_cut_T = {}
  /\ cut_edges = <<>>
  /\ cut_capacity = 0
  /\ max_flow = 0
  /\ iterations = 0
  /\ parent = <<>>
  /\ path_flow = 0
  /\ path_indices = <<>>
  /\ ret = NoRet
  /\ returned = <<>>

Init ==
  /\ \E c \in Calls : G = c.G /\ fuente = c.fuente /\ sumidero = c.sumidero
  /\ max_iterations = MAX_ITERATIONS
  /\ Fresh
  /\ other = NoOther

\* the class attribute MAX_ITERATIONS overridden with a small value
CapInit ==
  /\ \E c \in CapCalls : G = c.G /\ fuente = c.fuente /\ sumidero = c.sumidero
  /\ max_iterations \in 1..MaxIterationCap
  /\ Fresh
  /\ other = NoOther

(* ---------------------------- constructor ------------------------------ *)
\* the validation of __init__: TRUE when a ValueError is raised

\* variant: the node limit tested with >= instead of >
TooManyNodes_AtLimit(g) == Len(g.nodes) >= MAX_NODES

\* "len(G.nodes()) > self.MAX_NODES"
TooManyNodes(g) == Len(g.nodes) > MAX_NODES
BadCapacity(g) ==
  \E e \in DOMAIN g.adj : ~IsNumeric(g.adj[e]) \/ GetCapacity(g.adj[e]) < 0

Rejects(g, s, t) ==
  \/ TooManyNodes(g)
  \/ s \notin Range(g.nodes)
  \/ t \notin Range(g.nodes)
  \/ s = t
  \/ BadCapacity(g)

\* variant: every edge entered in both directions, as for an undirected graph
InitialResidual_Symmetric(g) ==
  LET n == Len(g.nodes) IN
  [i \in 0..(n - 1) |->
     [j \in 0..(n - 1) |->
        LET e == <<g.nodes[i + 1], g.nodes[j + 1]>>
            back == <<g.nodes[j + 1], g.nodes[i + 1]>>
        IN IF e \in DOMAIN g.adj THEN Capacity(g, e)
           ELSE IF back \in DOMAIN g.adj THEN Capacity(g, back)
           ELSE 0]]

\* the residual matrix built from the edges of the graph
InitialResidual(g) ==
  LET n == Len(g.nodes) IN
  [i \in 0..(n - 1) |->
     [j \in 0..(n - 1) |->
        LET e == <<g.nodes[i + 1], g.nodes[j + 1]>> IN
        IF e \in DOMAIN g.adj THEN Capacity(g, e) ELSE 0]]

Construct ==
  /\ phase = "new"
  /\ IF Rejects(G, fuente, sumidero)
     THEN /\ phase' = "invalid_input"
          /\ raised' = "ValueError"
          /\ UNCHANGED fields
     ELSE /\ phase' = "ready"
          /\ raised' = "none"
          /\ G_original' = G
          /\ nodes' = G.nodes
          /\ residual' = InitialResidual(G)
          /\ flow' = [e \in DOMAIN G.adj |-> 0]
          /\ max_flow_value' = 0
          /\ augmenting_paths' = <<>>
          /\ min_cut_S' = {}
          /\ min_cut_T' = {}
          /\ cut_edges' = <<>>
          /\ cut_capacity' = 0
  /\ UNCHANGED <<args, locals, ret, returned, other>>

(* ------------------------- augmenting-path search ---------------------- *)
\* The state threaded through one search: the visited set and the parent
\* array (both shared by all recursive calls), whether the sink was
\* reached, and whether the recursion-depth guard raised RecursionError.
NewSearch(n) ==
  [visited |-> {}, parent |-> [i \in 0..(n - 1) |-> -1],
   found |-> FALSE, error |-> FALSE]

\* "self.residual[current_idx][v] > 0" of dfs
dfs_admits(res, u, v) == res[u][v] > 0

RECURSIVE dfs(_, _, _, _, _)
RECURSIVE dfs_neighbours(_, _, _, _, _, _)
RECURSIVE dfs_neighbours_Descending(_, _, _, _, _, _)

\* variant: a breadth-first search from current_idx, the queue served in
\* arrival order, the neighbours of a node entered in increasing index
RECURSIVE Ascending(_)
Ascending(S) ==
  IF S = {} THEN <<>>
  ELSE LET least == CHOOSE x \in S : \A y \in S : x <= y
       IN <<least>> \o Ascending(S \ {least})

RECURSIVE BreadthFirst(_, _, _, _)
BreadthFirst(res, sink_idx, queue, st) ==
  IF queue = <<>> THEN st
  ELSE LET u == Head(queue)
           fresh == {v \in DOMAIN res : v \notin st.visited /\ res[u][v] > 0}
           seen == [visited |-> st.visited \cup fresh,
                    parent |-> [v \in DOMAIN st.parent |->
                                  IF v \in fresh THEN u ELSE st.parent[v]],
                    found |-> sink_idx \in fresh,
                    error |-> FALSE]
       IN IF seen.found THEN seen
          ELSE BreadthFirst(res, sink_idx, Tail(queue) \o Ascending(fresh), seen)

dfs_BreadthFirst(res, current_idx, sink_idx, st, depth) ==
  BreadthFirst(res, sink_idx, <<current_idx>>,
               [st EXCEPT !.visited = {current_idx}])

\* dfs(current_idx, sink_idx, visited, parent, depth) on the matrix res
\* variant: the depth guard set one below the longest simple path
dfs_ShallowGuard(res, current_idx, sink_idx, st, depth) ==
  IF depth >= Cardinality(DOMAIN res) - 1 THEN [st EXCEPT !.error = TRUE]
  ELSE IF current_idx = sink_idx THEN [st EXCEPT !.found = TRUE]
  ELSE dfs_neighbours(res, current_idx, sink_idx,
                      [st EXCEPT !.visited = @ \cup {current_idx}], depth, 0)

dfs(res, current_idx, sink_idx, st, depth) ==
  IF depth > Cardinality(DOMAIN res) THEN [st EXCEPT !.error = TRUE]
  ELSE IF current_idx = sink_idx THEN [st EXCEPT !.found = TRUE]
  ELSE dfs_neighbours(res, current_idx, sink_idx,
                      [st EXCEPT !.visited = @ \cup {current_idx}], depth, 0)

\* variant: the neighbours are tried from the highest index down; v counts
\* the neighbours already tried
dfs_neighbours_Descending(res, current_idx, sink_idx, st, depth, v) ==
  LET w == Cardinality(DOMAIN res) - 1 - v IN
  IF v >= Cardinality(DOMAIN res) THEN st
  ELSE IF w \notin st.visited /\ dfs_admits(res, current_idx, w)
  THEN CHOOSE after \in
         {IF below.found \/ below.error THEN below
          ELSE dfs_neighbours_Descending(res, current_idx, sink_idx, below,
                                         depth, v + 1) :
            below \in {dfs(res, w, sink_idx,
                           [st EXCEPT !.parent[w] = current_idx], depth + 1)}} :
         TRUE
  ELSE dfs_neighbours_Descending(res, current_idx, sink_idx, st, depth, v + 1)

\* the loop "for v in range(len(self.residual))" of dfs, from v on; below
\* is what the recursive call on v returns
dfs_neighbours(res, current_idx, sink_idx, st, depth, v) ==
  IF v >= Cardinality(DOMAIN res) THEN st
  ELSE IF v \notin st.visited /\ dfs_admits(res, current_idx, v)
  THEN CHOOSE after \in
         {IF below.found \/ below.error THEN below
          ELSE dfs_neighbours(res, current_idx, sink_idx, below, depth, v + 1) :
            below \in {dfs(res, v, sink_idx,
                           [st EXCEPT !.parent[v] = current_idx], depth + 1)}} :
         TRUE
  ELSE dfs_neighbours(res, current_idx, sink_idx, st, depth, v + 1)

(* --------------------------- find_max_flow ----------------------------- *)
source_idx == IndexOf(nodes, fuente)
sink_idx == IndexOf(nodes, sumidero)
idx_to_node(i) == nodes[i + 1]

\* variant: the first argument, whatever the second
Min_First(a, b) == a

Min(a, b) == IF a <= b THEN a ELSE b

\* variant: the largest residual capacity of the path instead of the smallest
Bottleneck_Max(acc, c) == IF acc.inf \/ acc.flow <= c THEN c ELSE acc.flow

\* variant: one unit pushed per path, whatever the residual capacities
Bottleneck_Unit(acc, c) == 1

\* variant: the residual capacity of the arc looked at last, the one that
\* leaves the source
Bottleneck_LastArc(acc, c) == c

\* "path_flow = min(path_flow, self.residual[parent[s]][s])", path_flow
\* being float('inf') until the first arc is seen
Bottleneck(acc, c) == IF acc.inf THEN c ELSE Min(acc.flow, c)

\* The walk from the sink back to the source along the parent pointers:
\* collects the indices met, the minimum residual capacity on the way
\* (inf while no arc has been seen) and whether a node without parent is met.
RECURSIVE WalkBack(_, _, _, _)
WalkBack(res, par, s, acc) ==
  IF s = source_idx THEN [acc EXCEPT !.indices = <<source_idx>> \o @]
  ELSE IF par[s] = -1
  THEN [acc EXCEPT !.indices = <<s>> \o @, !.orphan = TRUE]
  ELSE WalkBack(res, par, par[s],
                [indices |-> <<s>> \o acc.indices,
                 inf |-> FALSE,
                 flow |-> Bottleneck(acc, res[par[s]][s]),
                 orphan |-> FALSE])

PathOf(res, par) ==
  WalkBack(res, par, sink_idx,
           [indices |-> <<>>, inf |-> TRUE, flow |-> 0, orphan |-> FALSE])

\* variant: the reverse arc is not credited
RECURSIVE UpdateResidual_NoReverse(_, _, _, _)
UpdateResidual_NoReverse(res, par, amount, v) ==
  IF v = source_idx THEN res
  ELSE UpdateResidual_NoReverse([res EXCEPT ![par[v]][v] = @ - amount],
                                par, amount, par[v])

\* variant: the two updates exchanged
RECURSIVE UpdateResidual_Swapped(_, _, _, _)
UpdateResidual_Swapped(res, par, amount, v) ==
  IF v = source_idx THEN res
  ELSE LET u == par[v]
           more == [res EXCEPT ![u][v] = @ + amount]
       IN UpdateResidual_Swapped([more EXCEPT ![v][u] = @ - amount],
                                 par, amount, u)

\* variant: the walk stops one arc early, at the node after the source
RECURSIVE UpdateResidual_SkipsFirstArc(_, _, _, _)
UpdateResidual_SkipsFirstArc(res, par, amount, v) ==
  IF v = source_idx \/ par[v] = source_idx THEN res
  ELSE LET u == par[v]
           less == [res EXCEPT ![u][v] = @ - amount]
       IN UpdateResidual_SkipsFirstArc([less EXCEPT ![v][u] = @ + amount],
                                       par, amount, u)

\* variant: the credit written on the diagonal cell of v
RECURSIVE UpdateResidual_Diagonal(_, _, _, _)
UpdateResidual_Diagonal(res, par, amount, v) ==
  IF v = source_idx THEN res
  ELSE LET u == par[v]
           less == [res EXCEPT ![u][v] = @ - amount]
       IN UpdateResidual_Diagonal([less EXCEPT ![v][v] = @ + amount],
                                  par, amount, u)

\* "residual[u][v] -= path_flow; residual[v][u] += path_flow" from v back
\* to the source
RECURSIVE UpdateResidual(_, _, _, _)
UpdateResidual(res, par, amount, v) ==
  IF v = source_idx THEN res
  ELSE LET u == par[v]
           less == [res EXCEPT ![u][v] = @ - amount]
       IN UpdateResidual([less EXCEPT ![v][u] = @ + amount], par, amount, u)

\* _compute_flow: capacity minus residual capacity, per original edge
ComputeFlow(g, res) ==
  [e \in DOMAIN g.adj |->
     Capacity(g, e) - res[IndexOf(g.nodes, e[1])][IndexOf(g.nodes, e[2])]]

\* the breadth-first search of _compute_min_cut: the queue and the set of
\* indices marked visited
\* variant: arcs without residual capacity are followed too
bfs_admits_NonNegative(res, u, v) == res[u][v] >= 0

\* "self.residual[u][v] > 0" of _compute_min_cut
bfs_admits(res, u, v) == res[u][v] > 0

RECURSIVE bfs(_, _, _)
RECURSIVE bfs_neighbours(_, _, _, _, _)

bfs(res, queue, visited) ==
  IF queue = <<>> THEN visited
  ELSE bfs_neighbours(res, Head(queue), Tail(queue), visited, 0)

bfs_neighbours(res, u, queue, visited, v) ==
  IF v >= Cardinality(DOMAIN res) THEN bfs(res, queue, visited)
  ELSE IF v \notin visited /\ bfs_admits(res, u, v)
  THEN bfs_neighbours(res, u, Append(queue, v), visited \cup {v}, v + 1)
  ELSE bfs_neighbours(res, u, queue, visited, v + 1)

\* variant: the source and its direct neighbours only
reachable_indices_OneLevel(res) ==
  {source_idx} \cup {v \in DOMAIN res : res[source_idx][v] > 0}

reachable_indices(res) == bfs(res, <<source_idx>>, {source_idx})

\* the groups and the cut edges _compute_min_cut derives from the matrix res
MinCutS(res) == {idx_to_node(i) : i \in reachable_indices(res)}
MinCutT(res) == Range(nodes) \ MinCutS(res)
\* variant: the edges crossing the cut in either direction
CutEdges_BothWays(g, res) ==
  SelectSeq(Edges(g),
            LAMBDA e : \/ e[1] \in MinCutS(res) /\ e[2] \in MinCutT(res)
                       \/ e[1] \in MinCutT(res) /\ e[2] \in MinCutS(res))

CutEdges(g, res) ==
  SelectSeq(Edges(g), LAMBDA e : e[1] \in MinCutS(res) /\ e[2] \in MinCutT(res))

RECURSIVE CutCapacityFrom(_, _, _)
CutCapacityFrom(g, es, start) ==
  IF es = <<>> THEN start
  ELSE CutCapacityFrom(g, Tail(es), start + Capacity(g, Head(es)))

\* variant: cut_capacity is not reset before the edges are added up
CutCapacity_NoReset(g, res) == CutCapacityFrom(g, CutEdges(g, res), cut_capacity)

CutCapacity(g, res) == CutCapacityFrom(g, CutEdges(g, res), 0)

\* variant: the cap is never enforced
CapExceeded_Never(count, cap) == FALSE

\* "iterations > self.MAX_ITERATIONS"
CapExceeded(count, cap) == count > cap

\* the call of find_max_flow: lines 139-144
FindMaxFlow ==
  /\ phase = "ready"
  /\ phase' = "searching"
  /\ max_flow' = 0
  /\ iterations' = 0
  /\ UNCHANGED <<args, raised, fields, parent, path_flow, path_indices, ret,
                 returned, other>>

\* One pass of the loop up to the validation of the bottleneck (lines
\* 148-184); when no path is found, the loop is left and the results are
\* stored (lines 200-203).
Search ==
  /\ phase = "searching"
  /\ iterations' = iterations + 1
  /\ \E found \in {dfs(residual, source_idx, sink_idx,
                       NewSearch(Cardinality(DOMAIN residual)), 0)} :
     \E path \in {PathOf(residual, found.parent)} :
     IF CapExceeded(iterations + 1, max_iterations)
     THEN /\ phase' = "not_converged"
          /\ raised' = "RuntimeError"
          /\ UNCHANGED <<fields, max_flow, parent, path_flow, path_indices,
                         returned>>
     ELSE IF found.error
     THEN /\ phase' = "failed"
          /\ raised' = "RuntimeError"
          /\ parent' = found.parent
          /\ UNCHANGED <<fields, max_flow, path_flow, path_indices, returned>>
     ELSE IF ~found.found
     THEN /\ phase' = "done"
          /\ raised' = "none"
          /\ parent' = found.parent
          /\ max_flow_value' = max_flow
          /\ flow' = ComputeFlow(G_original, residual)
          /\ min_cut_S' = MinCutS(residual)
          /\ min_cut_T' = MinCutT(residual)
          /\ cut_edges' = CutEdges(G_original, residual)
          /\ cut_capacity' = CutCapacity(G_original, residual)
          /\ returned' = Append(returned,
                                [value |-> max_flow,
                                 flow |-> flow',
                                 augmenting_paths |-> augmenting_paths,
                                 min_cut_S |-> min_cut_S',
                                 min_cut_T |-> min_cut_T'])
          /\ UNCHANGED <<G_original, nodes, residual, augmenting_paths,
                         max_flow, path_flow, path_indices>>
     ELSE IF path.orphan \/ path.inf \/ path.flow <= 0
     THEN /\ phase' = "failed"
          /\ raised' = "ValueError"
          /\ parent' = found.parent
          /\ UNCHANGED <<fields, max_flow, path_flow, path_indices, returned>>
     ELSE /\ phase' = "augmenting"
          /\ raised' = "none"
          /\ parent' = found.parent
          /\ path_flow' = path.flow
          /\ path_indices' = path.indices
          /\ UNCHANGED <<fields, max_flow, returned>>
  /\ UNCHANGED <<args, ret, other>>

\* The rest of the pass (lines 186-198): record the path, update the
\* residual capacities, add the bottleneck to the total.
Augment ==
  /\ phase = "augmenting"
  /\ augmenting_paths' =
       Append(augmenting_paths,
              [i \in 1..Len(path_indices) |-> idx_to_node(path_indices[i])])
  /\ residual' = UpdateResidual(residual, parent, path_flow, sink_idx)
  /\ max_flow' = max_flow + path_flow
  /\ phase' = "searching"
  /\ other' = OtherAfterWrite(residual')
  /\ UNCHANGED <<args, raised, G_original, nodes, flow, max_flow_value,
                 min_cut_S, min_cut_T, cut_edges, cut_capacity,
                 iterations, parent, path_flow, path_indices, ret, returned>>

(* ------------------------------ reporting ------------------------------ *)
\* f"{(num / den * 100):.1f}%": the percentage rounded to one decimal,
\* ties to the even digit
Abs(x) == IF x < 0 THEN -x ELSE x

Tenths(num, den) ==
  LET q == (1000 * Abs(num)) \div den
      r == (1000 * Abs(num)) % den
  IN IF 2 * r > den \/ (2 * r = den /\ q % 2 = 1) THEN q + 1 ELSE q

FormatPercent(num, den) ==
  LET t == Tenths(num, den) IN
  (IF num < 0 /\ t > 0 THEN "-" ELSE "") \o
  ToString(t \div 10) \o "." \o ToString(t % 10) \o "%"

\* list.sort / sorted with a key: a stable insertion into the sorted prefix;
\* the entries are [key |-> <<k1, k2>>, item |-> x], keys compared as tuples
KeyLess(a, b) == a[1] < b[1] \/ (a[1] = b[1] /\ a[2] < b[2])

RECURSIVE InsertKeyed(_, _)
InsertKeyed(seq, x) ==
  IF seq = <<>> THEN <<x>>
  ELSE IF KeyLess(x.key, Head(seq).key) THEN <<x>> \o seq
  ELSE <<Head(seq)>> \o InsertKeyed(Tail(seq), x)

RECURSIVE SortKeyed(_)
SortKeyed(seq) ==
  IF seq = <<>> THEN <<>>
  ELSE InsertKeyed(SortKeyed(SubSeq(seq, 1, Len(seq) - 1)), seq[Len(seq)])

Items(seq) == [k \in 1..Len(seq) |-> seq[k].item]

RECURSIVE SetToSeq(_)
SetToSeq(S) ==
  IF S = {} THEN <<>>
  ELSE LET x == CHOOSE y \in S : TRUE IN <<x>> \o SetToSeq(S \ {x})

SortedByInt(S) ==
  LET xs == SetToSeq(S) IN
  Items(SortKeyed([k \in 1..Len(xs) |->
                     [key |-> <<IntValue(xs[k]), 0>>, item |-> xs[k]]]))

\* what a call gives back: a value, or the ValueError raised by int(x) on
\* an identifier that is no decimal literal
Value(v) == [error |-> "none", value |-> v]
ValueError == [error |-> "ValueError", value |-> <<>>]

\* get_min_cut_info
MinCutInfo ==
  IF \E x \in min_cut_S \cup min_cut_T : ~IsIntLiteral(x) THEN ValueError
  ELSE Value(
       [grupo_S |-> SortedByInt(min_cut_S),
        grupo_T |-> SortedByInt(min_cut_T),
        aristas_corte |-> cut_edges,
        capacidad_corte |-> cut_capacity,
        num_nodos_S |-> Cardinality(min_cut_S),
        num_nodos_T |-> Cardinality(min_cut_T)])

\* one row of get_flow_details
FlowRow(e) ==
  LET capacity == Capacity(G_original, e)
      f == IF e \in DOMAIN flow THEN flow[e] ELSE 0
  IN [origen |-> e[1],
      destino |-> e[2],
      capacidad |-> capacity,
      flujo |-> f,
      residual |-> capacity - f,
      utilizacion |-> IF capacity > 0 THEN FormatPercent(f, capacity)
                      ELSE "0.0%",
      saturada |-> (f = capacity),
      corte |-> (e \in Range(cut_edges))]

\* get_flow_details: the rows in edge order, then sorted by
\* (int(origen), int(destino))
FlowDetails ==
  LET es == Edges(G_original)
      details == [k \in 1..Len(es) |-> FlowRow(es[k])]
  IN IF \E k \in 1..Len(es) : ~IsIntLiteral(es[k][1]) \/ ~IsIntLiteral(es[k][2])
     THEN ValueError
     ELSE Value(Items(SortKeyed([k \in 1..Len(details) |->
                                   [key |-> <<IntValue(details[k].origen),
                                              IntValue(details[k].destino)>>,
                                    item |-> details[k]]])))

\* get_summary
\* variant: the capacities of all the edges, not only of those leaving the
\* source
total_capacity_out_AllEdges ==
  SumSeq([k \in 1..Len(Edges(G_original)) |->
            Capacity(G_original, Edges(G_original)[k])])

total_capacity_out ==
  SumSeq([k \in 1..Len(SelectSeq(Edges(G_original), LAMBDA e : e[1] = fuente)) |->
            Capacity(G_original,
                     SelectSeq(Edges(G_original), LAMBDA e : e[1] = fuente)[k])])

total_capacity_in ==
  SumSeq([k \in 1..Len(SelectSeq(Edges(G_original), LAMBDA e : e[2] = sumidero)) |->
            Capacity(G_original,
                     SelectSeq(Edges(G_original), LAMBDA e : e[2] = sumidero)[k])])

saturated_edges ==
  Cardinality({e \in DOMAIN flow :
                 flow[e] = Capacity(G_original, e) /\ flow[e] > 0})

Summary ==
  [flujo_maximo |-> max_flow_value,
   capacidad_salida_fuente |-> total_capacity_out,
   capacidad_entrada_sumidero |-> total_capacity_in,
   aristas_saturadas |-> saturated_edges,
   total_aristas |-> Cardinality(DOMAIN flow),
   caminos_aumentantes |-> Len(augmenting_paths),
   eficiencia_fuente |->
     IF total_capacity_out > 0
     THEN FormatPercent(max_flow_value, total_capacity_out) ELSE "N/A",
   eficiencia_sumidero |->
     IF total_capacity_in > 0
     THEN FormatPercent(max_flow_value, total_capacity_in) ELSE "N/A"]

\* " → ".join(path)
RECURSIVE Join(_)
Join(path) ==
  IF Len(path) = 0 THEN ""
  ELSE IF Len(path) = 1 THEN path[1]
  ELSE path[1] \o " → " \o Join(Tail(path))

\* get_augmenting_paths
AugmentingPathStrings ==
  [i \in 1..Len(augmenting_paths) |->
     "Camino " \o ToString(i) \o ": " \o Join(augmenting_paths[i])]

\* The reporting methods, called on an instance whose find_max_flow has
\* returned.
ComputeFlowCall ==
  /\ phase = "done"
  /\ flow' = ComputeFlow(G_original, residual)
  /\ ret' = [op |-> "_compute_flow", val |-> <<>>]
  /\ raised' = "none"
  /\ UNCHANGED <<args, phase, G_original, nodes, residual, max_flow_value,
                 augmenting_paths, min_cut_S, min_cut_T, cut_edges,
                 cut_capacity, locals, returned, other>>

ComputeMinCutCall ==
  /\ phase = "done"
  /\ min_cut_S' = MinCutS(residual)
  /\ min_cut_T' = MinCutT(residual)
  /\ cut_edges' = CutEdges(G_original, residual)
  /\ cut_capacity' = CutCapacity(G_original, residual)
  /\ ret' = [op |-> "_compute_min_cut", val |-> <<>>]
  /\ raised' = "none"
  /\ UNCHANGED <<args, phase, G_original, nodes, residual, flow,
                 max_flow_value, augmenting_paths, locals, returned, other>>

Returns(op, result) ==
  /\ ret' = [op |-> op, val |-> result.value]
  /\ raised' = result.error
  /\ UNCHANGED <<args, phase, fields, locals, returned, other>>

GetMinCutInfo ==
  /\ phase = "done"
  /\ Returns("get_min_cut_info", MinCutInfo)

GetFlowDetails ==
  /\ phase = "done"
  /\ Returns("get_flow_details", FlowDetails)

GetSummary ==
  /\ phase = "done"
  /\ Returns("get_summary", Value(Summary))

GetAugmentingPaths ==
  /\ phase = "done"
  /\ Returns("get_augmenting_paths", Value(AugmentingPathStrings))

Next ==
  \/ Construct
  \/ FindMaxFlow
  \/ Search
  \/ Augment
  \/ ComputeFlowCall
  \/ ComputeMinCutCall
  \/ GetMinCutInfo
  \/ GetFlowDetails
  \/ GetSummary
  \/ GetAugmentingPaths

Spec == Init /\ [][Next]_vars

\* The run of one computation alone: construction and find_max_flow, which
\* once called runs each pass of its loop to the end.
RunNext == Construct \/ FindMaxFlow \/ Search \/ Augment

FairSpec == Init /\ [][RunNext]_vars /\ WF_vars(Search) /\ WF_vars(Augment)

\* the same run without fairness, for the properties of its states and steps
RunSpec == Init /\ [][RunNext]_vars

\* the run under a lowered iteration cap
CapSpec == CapInit /\ [][RunNext]_vars

\* find_max_flow called again on an instance whose earlier call returned:
\* lines 139-144 once more, on the fields as they are
FindMaxFlowAgain ==
  /\ phase = "done"
  /\ Len(returned) < MaxCalls
  /\ phase' = "searching"
  /\ max_flow' = 0
  /\ iterations' = 0
  /\ UNCHANGED <<args, raised, fields, parent, path_flow, path_indices, ret,
                 returned, other>>

RecallNext == RunNext \/ FindMaxFlowAgain

\* the run followed by further calls of find_max_flow
RecallSpec == Init /\ [][RecallNext]_vars

\* A second instance FordFulkerson(G, fuente, sumidero) built by the caller
\* from the same graph object.  Its find_max_flow is taken as one step: the
\* passes of lines 148-198 until the search finds no path, then lines
\* 200-203 (the cap and the error branches are not met on these networks).
RECURSIVE RunToEnd(_)
RunToEnd(run) ==
  LET found == dfs(run.residual, source_idx, sink_idx,
                   NewSearch(Cardinality(DOMAIN run.residual)), 0)
      path == PathOf(run.residual, found.parent)
  IN IF ~found.found THEN run
     ELSE RunToEnd([residual |-> UpdateResidual(run.residual, found.parent,
                                                path.flow, sink_idx),
                    paths |-> Append(run.paths,
                                     [i \in 1..Len(path.indices) |->
                                        idx_to_node(path.indices[i])]),
                    total |-> run.total + path.flow])

\* the matrix of the first instance after the second has written res
ResidualAfterOtherWrite(res) ==
  IF phase \in {"ready", "searching", "augmenting", "done"}
       /\ ResidualAddress(1) = ResidualAddress(2)
  THEN res
  ELSE residual

OtherConstruct ==
  /\ other.phase = "new"
  /\ phase \notin {"new", "invalid_input"}
  /\ other' = [OtherAt("ready") EXCEPT
                 !.G_original = G,
                 !.residual = InitialResidual(G),
                 !.flow = [e \in DOMAIN G.adj |-> 0]]
  /\ residual' = ResidualAfterOtherWrite(InitialResidual(G))
  /\ UNCHANGED <<args, phase, raised, G_original, nodes, flow, max_flow_value,
                 augmenting_paths, min_cut_S, min_cut_T, cut_edges,
                 cut_capacity, locals, ret, returned>>

OtherFindMaxFlow ==
  /\ other.phase = "ready"
  /\ \E end \in {RunToEnd([residual |-> other.residual,
                            paths |-> other.augmenting_paths,
                            total |-> 0])} :
       /\ other' = [other EXCEPT
                      !.phase = "done",
                      !.residual = end.residual,
                      !.augmenting_paths = end.paths,
                      !.max_flow_value = end.total,
                      !.flow = ComputeFlow(other.G_original, end.residual),
                      !.min_cut_S = MinCutS(end.residual),
                      !.min_cut_T = MinCutT(end.residual),
                      !.cut_edges = CutEdges(other.G_original, end.residual),
                      !.cut_capacity = CutCapacity(other.G_original, end.residual)]
       /\ residual' = ResidualAfterOtherWrite(end.residual)
  /\ UNCHANGED <<args, phase, raised, G_original, nodes, flow, max_flow_value,
                 augmenting_paths, min_cut_S, min_cut_T, cut_edges,
                 cut_capacity, locals, ret, returned>>

\* two instances on the accepted four-node networks and the two scenarios
PairCalls == DiamondCalls \cup ScenarioCalls

PairInit ==
  /\ \E c \in PairCalls : G = c.G /\ fuente = c.fuente /\ sumidero = c.sumidero
  /\ max_iterations = MAX_ITERATIONS
  /\ Fresh
  /\ other = OtherAt("new")

PairNext == RunNext \/ OtherConstruct \/ OtherFindMaxFlow

\* the calls on the two instances in any order
PairSpec == PairInit /\ [][PairNext]_vars

(* ------------------------- building the graph -------------------------- *)
\* graph_core.py: the two functions the callers use to edit the graph they
\* later hand to FordFulkerson.

\* G.remove_edge(u, v)
RemoveEdge(g, e) ==
  [g EXCEPT !.adj = [x \in (DOMAIN g.adj) \ {e} |-> g.adj[x]]]

\* G.add_edge(u, v, capacity=c) / G[u][v]["capacity"] = c: the edge holds
\* capacity c; add_edge also adds the end nodes that are missing
PutEdge(g, e, c) ==
  LET withU == IF e[1] \in Range(g.nodes) THEN g.nodes ELSE Append(g.nodes, e[1])
      withV == IF e[2] \in Range(withU) THEN withU ELSE Append(withU, e[2])
  IN [nodes |-> withV,
      adj |-> [x \in (DOMAIN g.adj) \cup {e} |->
                 IF x = e THEN IntData(c) ELSE g.adj[x]]]

\* variant: the opposite edge is left in place
add_or_update_edge_no_bidirectional_KeepsReverse(g, u, v, capacity) ==
  IF u = v THEN g ELSE PutEdge(g, <<u, v>>, capacity)

\* add_or_update_edge_no_bidirectional(G, u, v, capacity)
add_or_update_edge_no_bidirectional(g, u, v, capacity) ==
  IF u = v THEN g
  ELSE LET cleared == IF HasEdge(g, v, u) THEN RemoveEdge(g, <<v, u>>) ELSE g
       IN PutEdge(cleared, <<u, v>>, capacity)

RECURSIVE RemoveAll(_, _)
RemoveAll(g, es) ==
  IF es = <<>> THEN g ELSE RemoveAll(RemoveEdge(g, Head(es)), Tail(es))

\* "if G.has_edge(fuente, sumidero): G.remove_edge(fuente, sumidero)"
RemoveDirect(g, s, t) ==
  IF HasEdge(g, s, t) THEN RemoveEdge(g, <<s, t>>) ELSE g

\* "for u in list(G.predecessors(fuente)): G.remove_edge(u, fuente)"
RemoveIntoSource(g, s) ==
  RemoveAll(g, SelectSeq(Edges(g), LAMBDA e : e[2] = s))

\* "for v in list(G.successors(sumidero)): G.remove_edge(sumidero, v)"
RemoveOutOfSink(g, t) ==
  RemoveAll(g, SelectSeq(Edges(g), LAMBDA e : e[1] = t))

\* list(nx.Graph(G).edges()): every joined pair once, written from the node
\* that comes first in G.nodes() (a self-loop as (u, u))
UndirectedEdges(g) ==
  SelectSeq(NodePairs(g),
            LAMBDA e : /\ IndexOf(g.nodes, e[1]) <= IndexOf(g.nodes, e[2])
                       /\ (HasEdge(g, e[1], e[2]) \/ HasEdge(g, e[2], e[1])))

\* variant: the opposite edges are never looked for
RemoveBidirectional_None(g, es) == g

\* "if G.has_edge(u, v) and G.has_edge(v, u): G.remove_edge(v, u)" for the
\* pairs of es in turn
RECURSIVE RemoveBidirectional(_, _)
RemoveBidirectional(g, es) ==
  IF es = <<>> THEN g
  ELSE LET u == Head(es)[1]
           v == Head(es)[2]
       IN RemoveBidirectional(
            IF HasEdge(g, u, v) /\ HasEdge(g, v, u)
            THEN RemoveEdge(g, <<v, u>>) ELSE g,
            Tail(es))

\* enforce_constraints(G, fuente, sumidero)
enforce_constraints(g, s, t) ==
  LET direct == RemoveDirect(g, s, t)
      source == RemoveIntoSource(direct, s)
      sink == RemoveOutOfSink(source, t)
  IN RemoveBidirectional(sink, UndirectedEdges(sink))

\* every ordered pair of the first n node names, self-loops included
AllPairs(n) == Range(FirstNodes(n)) \X Range(FirstNodes(n))

\* any directed graph on four nodes with at most MaxConstraintEdges edges of
\* capacity 1 or 2: self-loops, edges into the source, out of the sink,
\* from source to sink and in both directions included
ConstraintGraphs ==
  UNION {{[nodes |-> FirstNodes(4), adj |-> f] :
            f \in [E -> {IntData(1), IntData(2)}]} :
         E \in {E \in SUBSET AllPairs(4) : Cardinality(E) <= MaxConstraintEdges}}

\* the terminals: the first and last node either way round, or the two
\* middle nodes
ConstraintTerminals == {<<"0", "3">>, <<"3", "0">>, <<"1", "2">>}

NoCall ==
  /\ max_iterations = MAX_ITERATIONS
  /\ Fresh
  /\ other = NoOther

ConstraintInit ==
  /\ G \in ConstraintGraphs
  /\ \E st \in ConstraintTerminals : fuente = st[1] /\ sumidero = st[2]
  /\ NoCall

\* the call enforce_constraints(G, fuente, sumidero); ret keeps the graph as
\* it was before the call
EnforceConstraintsCall ==
  /\ phase = "new"
  /\ G' = enforce_constraints(G, fuente, sumidero)
  /\ ret' = [op |-> "enforce_constraints", val |-> G]
  /\ UNCHANGED <<fuente, sumidero, max_iterations, phase, raised, fields,
                 locals, returned, other>>

ConstraintSpec == ConstraintInit /\ [][EnforceConstraintsCall]_vars

\* the graphs on the first n nodes with no self-loop and no pair joined in
\* both directions, capacities 1..MaxEdgeCap
CleanGraphs(n) ==
  {g \in GraphsOn(n, n * n, {IntData(c) : c \in 1..MaxEdgeCap}) :
     \A e \in DOMAIN g.adj : <<e[2], e[1]>> \notin DOMAIN g.adj}

EdgeInit ==
  /\ G \in CleanGraphs(2) \cup CleanGraphs(3)
  /\ fuente = "0"
  /\ sumidero = "1"
  /\ NoCall

\* a call add_or_update_edge_no_bidirectional(G, u, v, capacity) between
\* nodes of the graph or, while the graph has fewer than three nodes, a node
\* it does not have yet; ret keeps the arguments and the graph as it was
AddOrUpdateEdgeCall ==
  /\ phase = "new"
  /\ \E u, v \in Range(G.nodes) \cup (IF Len(G.nodes) < 3 THEN {Outsider} ELSE {}) :
     \E capacity \in 1..MaxEdgeCap :
       /\ G' = add_or_update_edge_no_bidirectional(G, u, v, capacity)
       /\ ret' = [op |-> "add_or_update_edge_no_bidirectional",
                  val |-> [G |-> G, u |-> u, v |-> v, capacity |-> capacity]]
  /\ UNCHANGED <<fuente, sumidero, max_iterations, phase, raised, fields,
                 locals, returned, other>>

EdgeSpec == EdgeInit /\ [][AddOrUpdateEdgeCall]_vars

(* ----------------------------- properties ------------------------------ *)
Done == phase = "done"

OriginalEdges == DOMAIN G_original.adj
OriginalCapacity == [e \in OriginalEdges |-> Capacity(G_original, e)]

\* the capacity of the cut (S, complement of S): the summed capacities of
\* the original edges leaving S
CapacityAcross(S) ==
  SumOver({e \in OriginalEdges : e[1] \in S /\ e[2] \notin S}, OriginalCapacity)

\* the minimum over all partitions with the source in S and the sink outside
SourceSides ==
  {X \cup {fuente} : X \in SUBSET (Range(nodes) \ {fuente, sumidero})}

MinimumCutCapacity ==
  LET values == {CapacityAcross(S) : S \in SourceSides}
  IN CHOOSE m \in values : \A c \in values : m <= c

\* the arcs a recorded path runs along
ArcsOf(path) == {<<path[i], path[i + 1]>> : i \in 1..(Len(path) - 1)}

\* C1: the value find_max_flow returns (and stores) is the true maximum
\* flow, the minimum capacity over all source/sink partitions of the nodes.
C1_MaxFlowIsMinimumCut ==
  Done => max_flow = MinimumCutCapacity /\ max_flow_value = MinimumCutCapacity

\* a run that had to push flow back through an arc that is no original edge
C1_Witness ==
  /\ Done
  /\ max_flow_value >= 2
  /\ \E i \in 1..Len(augmenting_paths) :
       \E a \in ArcsOf(augmenting_paths[i]) : a \notin OriginalEdges

\* C2: at Done, max_flow_value equals cut_capacity, and cut_capacity is the
\* sum of the original capacities of the edges from min_cut_S to min_cut_T.
C2_FlowEqualsCutCapacity ==
  Done =>
    /\ max_flow_value = cut_capacity
    /\ cut_capacity =
         SumOver({e \in OriginalEdges : e[1] \in min_cut_S /\ e[2] \in min_cut_T},
                 OriginalCapacity)

\* a positive flow on a network with an edge from the sink side back to the
\* source side
C2_Witness ==
  /\ Done
  /\ max_flow_value > 0
  /\ \E e \in OriginalEdges :
       e[1] \in min_cut_T /\ e[2] \in min_cut_S /\ OriginalCapacity[e] > 0

\* C3: at Done every original edge carries a flow between 0 and its capacity.
C3_FlowWithinCapacity ==
  Done => \A e \in OriginalEdges : 0 <= flow[e] /\ flow[e] <= OriginalCapacity[e]

\* C4: at Done the flow into every node other than the source and the sink
\* equals the flow out of it.
FlowInto(x) == SumOver({e \in OriginalEdges : e[2] = x}, flow)
FlowOutOf(x) == SumOver({e \in OriginalEdges : e[1] = x}, flow)

C4_FlowConservation ==
  Done => \A x \in Range(nodes) \ {fuente, sumidero} : FlowInto(x) = FlowOutOf(x)

\* C5: at Done min_cut_S and min_cut_T partition the nodes, the source is in
\* min_cut_S and the sink in min_cut_T.
C5_CutIsPartition ==
  Done =>
    /\ min_cut_S \cap min_cut_T = {}
    /\ min_cut_S \cup min_cut_T = Range(nodes)
    /\ fuente \in min_cut_S
    /\ sumidero \in min_cut_T

\* a cut with more than the source on one side and more than the sink on
\* the other
C5_Witness ==
  /\ Done
  /\ Cardinality(min_cut_S) >= 2
  /\ Cardinality(min_cut_T) >= 2

\* C6: the constructor raises ValueError, with nothing built and no search
\* run, exactly when the graph has more than 16 nodes, a terminal is no
\* node, the terminals coincide, or a capacity is negative or non-numeric.
C6_InvalidInput ==
  \/ Len(G.nodes) > 16
  \/ fuente \notin Range(G.nodes)
  \/ sumidero \notin Range(G.nodes)
  \/ fuente = sumidero
  \/ \E e \in DOMAIN G.adj :
       \/ G.adj[e].type = "str"
       \/ G.adj[e].type = "int" /\ G.adj[e].capacity < 0

C6_RejectsExactlyInvalidInput ==
  phase # "new" =>
    /\ (phase = "invalid_input") <=> C6_InvalidInput
    /\ phase = "invalid_input" =>
         /\ raised = "ValueError"
         /\ G_original = NoGraph /\ nodes = <<>> /\ residual = <<>>
         /\ flow = <<>> /\ augmenting_paths = <<>>
         /\ iterations = 0 /\ parent = <<>>

\* a graph of exactly 16 nodes with an edge was accepted
C6_Witness ==
  /\ phase = "ready"
  /\ Len(nodes) = 16
  /\ DOMAIN residual = 0..15
  /\ OriginalEdges # {}

\* C7: the loop ends in Done: every augmentation adds at least 1 to the
\* total, the total never exceeds the capacity leaving the source, and the
\* number of augmentations never exceeds that capacity.
SourceOutCapacity ==
  SumOver({e \in OriginalEdges : e[1] = fuente}, OriginalCapacity)

C7_Bounded ==
  /\ Len(augmenting_paths) <= max_flow
  /\ max_flow <= SourceOutCapacity
  /\ phase \notin {"not_converged", "failed"}

C7_Step == (phase = "augmenting" /\ phase' = "searching") => max_flow' >= max_flow + 1

C7_Terminates ==
  /\ []C7_Bounded
  /\ [][C7_Step]_vars
  /\ (phase = "searching") ~> Done

\* a run of several augmentations that used the whole capacity of the source
C7_Witness ==
  /\ Done
  /\ Len(augmenting_paths) >= 2
  /\ max_flow = SourceOutCapacity

C9_Step ==
  Done =>
    /\ fields' = fields
    /\ phase' = phase
    /\ ret'.op = ret.op => ret' = ret

C9_ReportingIsReadOnly == [][C9_Step]_vars

\* _compute_min_cut was called again on a cut of positive capacity
C9_Witness ==
  /\ Done
  /\ ret.op = "_compute_min_cut"
  /\ cut_capacity > 0

\* C10: when the sink cannot be reached from the source through edges of
\* positive capacity, the flow is 0, no path is recorded, every edge
\* carries 0, S is the set of nodes reachable through positive-capacity
\* edges, and the cut capacity is 0.
RECURSIVE PositiveClosure(_)
PositiveClosure(S) ==
  LET more == S \cup {e[2] : e \in {d \in OriginalEdges :
                                      d[1] \in S /\ OriginalCapacity[d] > 0}}
  IN IF more = S THEN S ELSE PositiveClosure(more)

PositivelyReachable == PositiveClosure({fuente})

C10_NoPath ==
  (Done /\ sumidero \notin PositivelyReachable) =>
    /\ max_flow = 0
    /\ max_flow_value = 0
    /\ augmenting_paths = <<>>
    /\ \A e \in OriginalEdges : flow[e] = 0
    /\ min_cut_S = PositivelyReachable
    /\ cut_capacity = 0

\* the source reaches another node, a zero-capacity edge leaves S, and an
\* edge of positive capacity runs from the sink side into S
C10_Witness ==
  /\ Done
  /\ sumidero \notin PositivelyReachable
  /\ Cardinality(min_cut_S) >= 2
  /\ \E e \in OriginalEdges :
       e[1] \in min_cut_S /\ e[2] \in min_cut_T /\ OriginalCapacity[e] = 0
  /\ \E e \in OriginalEdges :
       e[1] \in min_cut_T /\ e[2] \in min_cut_S /\ OriginalCapacity[e] > 0

\* C11: on the fixture A,B,C,D (A->B 10, A->C 5, B->D 8, C->D 10, source A,
\* sink D) the run finds A-B-D with bottleneck 8, then A-C-D with bottleneck
\* 5, returns 13, and the capacity of the cut computed from the terminal
\* residual matrix is 13 as well.
OnFixture == G = ScenarioOne /\ fuente = "A" /\ sumidero = "D"

C11_Fixture ==
  OnFixture =>
    /\ phase \notin {"invalid_input", "failed", "not_converged"}
    /\ Len(augmenting_paths) <= 2
    /\ phase = "augmenting" => Len(augmenting_paths) <= 1
    /\ (phase = "augmenting" /\ Len(augmenting_paths) = 0) =>
         path_indices = <<0, 1, 3>> /\ path_flow = 8
    /\ (phase = "augmenting" /\ Len(augmenting_paths) = 1) =>
         path_indices = <<0, 2, 3>> /\ path_flow = 5
    /\ Len(augmenting_paths) >= 1 => augmenting_paths[1] = <<"A", "B", "D">>
    /\ Len(augmenting_paths) >= 2 => augmenting_paths[2] = <<"A", "C", "D">>
    /\ Done =>
         /\ Len(augmenting_paths) = 2
         /\ max_flow = 13
         /\ max_flow_value = 13
         /\ cut_capacity = 13
         /\ CapacityAcross(min_cut_S) = 13

\* the fixture run to its end
C11_Witness == OnFixture /\ Done /\ max_flow_value = 13 /\ cut_capacity = 13

(* --- the run described from the network and the node order alone --- *)
\* the simple paths of strictly positive residual capacity that extend
\* prefix to the sink, as sequences of node indices
RECURSIVE PositivePathsFrom(_, _)
PositivePathsFrom(res, prefix) ==
  LET last == prefix[Len(prefix)] IN
  IF last = sink_idx THEN {prefix}
  ELSE UNION {PositivePathsFrom(res, Append(prefix, v)) :
                v \in {w \in DOMAIN res :
                         w \notin Range(prefix) /\ res[last][w] > 0}}

PositivePaths(res) == PositivePathsFrom(res, <<source_idx>>)

\* p comes before q in the lexicographic order of node indices
LexLess(p, q) ==
  \E i \in 1..Min(Len(p), Len(q)) :
    p[i] < q[i] /\ \A j \in 1..(i - 1) : p[j] = q[j]

FirstPath(res) ==
  CHOOSE p \in PositivePaths(res) :
    \A q \in PositivePaths(res) : q = p \/ LexLess(p, q)

IndexArcs(p) == {<<p[i], p[i + 1]>> : i \in 1..(Len(p) - 1)}

PathMin(res, p) ==
  CHOOSE m \in {res[a[1]][a[2]] : a \in IndexArcs(p)} :
    \A a \in IndexArcs(p) : m <= res[a[1]][a[2]]

Push(res, p, amount) ==
  [i \in DOMAIN res |->
     [j \in DOMAIN res |->
        res[i][j] - (IF <<i, j>> \in IndexArcs(p) THEN amount ELSE 0)
                  + (IF <<j, i>> \in IndexArcs(p) THEN amount ELSE 0)]]

NamesOf(p) == [i \in 1..Len(p) |-> G.nodes[p[i] + 1]]

\* the capacities of the network as a matrix over the node order
CapacityMatrix ==
  [i \in 0..(Len(G.nodes) - 1) |->
     [j \in 0..(Len(G.nodes) - 1) |->
        IF <<G.nodes[i + 1], G.nodes[j + 1]>> \in DOMAIN G.adj
        THEN G.adj[<<G.nodes[i + 1], G.nodes[j + 1]>>].capacity ELSE 0]]

\* k times: take the first path in index order, push its minimum
RECURSIVE Replay(_, _)
Replay(run, k) ==
  IF k = 0 THEN run
  ELSE LET p == FirstPath(run.residual)
           b == PathMin(run.residual, p)
       IN Replay([residual |-> Push(run.residual, p, b),
                  paths |-> Append(run.paths, NamesOf(p)),
                  total |-> run.total + b], k - 1)

Replayed(k) == Replay([residual |-> CapacityMatrix, paths |-> <<>>, total |-> 0], k)

\* the indices reachable from S through arcs of positive residual capacity
RECURSIVE ResidualClosure(_, _)
ResidualClosure(res, S) ==
  LET more == S \cup {v \in DOMAIN res : \E u \in S : res[u][v] > 0}
  IN IF more = S THEN S ELSE ResidualClosure(res, more)

Running == phase \in {"searching", "augmenting", "done"}

\* C12: the run is a function of the network, the terminals and the node
\* order: after k augmentations the recorded paths, the total and the
\* residual matrix are what k rounds of "first positive path in increasing
\* index order, pushed by its minimum" give from the capacities; the path
\* and bottleneck of each pass are that first path and its minimum; the
\* per-edge flows and the cut partition at Done follow from that matrix.
C12_Deterministic ==
  Running =>
    LET r == Replayed(Len(augmenting_paths)) IN
    /\ residual = r.residual
    /\ augmenting_paths = r.paths
    /\ max_flow = r.total
    /\ phase = "augmenting" =>
         /\ path_indices = FirstPath(residual)
         /\ path_flow = PathMin(residual, path_indices)
    /\ Done =>
         /\ PositivePaths(r.residual) = {}
         /\ max_flow_value = r.total
         /\ \A e \in OriginalEdges :
              flow[e] = OriginalCapacity[e]
                        - r.residual[IndexOf(G.nodes, e[1])][IndexOf(G.nodes, e[2])]
         /\ min_cut_S = {G.nodes[i + 1] :
                           i \in ResidualClosure(r.residual, {source_idx})}
         /\ min_cut_T = Range(G.nodes) \ min_cut_S

\* a later pass that had to choose between two positive paths of the same
\* length
C12_Witness ==
  /\ phase = "augmenting"
  /\ Len(augmenting_paths) >= 1
  /\ \E p, q \in PositivePaths(residual) : p # q /\ Len(p) = Len(q)

\* C13: get_summary returns without error; an efficiency is "N/A" when the
\* capacity leaving the source (entering the sink) sums to 0, and otherwise
\* the ratio of max_flow_value to that sum, as a percentage with one decimal.
SinkInCapacity ==
  SumOver({e \in OriginalEdges : e[2] = sumidero}, OriginalCapacity)

IsEfficiency(field, total) ==
  IF total = 0 THEN field = "N/A"
  ELSE \E t \in 0..1000 :
         /\ 2 * Abs(1000 * max_flow_value - t * total) <= total
         /\ field = ToString(t \div 10) \o "." \o ToString(t % 10) \o "%"

C13_SummarySentinel ==
  (Done /\ ret.op = "get_summary") =>
    /\ raised = "none"
    /\ IsEfficiency(ret.val.eficiencia_fuente, SourceOutCapacity)
    /\ IsEfficiency(ret.val.eficiencia_sumidero, SinkInCapacity)

\* a summary with the sentinel for the source and a percentage for the sink
C13_Witness ==
  /\ Done
  /\ ret.op = "get_summary"
  /\ OriginalEdges # {}
  /\ ret.val.eficiencia_fuente = "N/A"
  /\ ret.val.eficiencia_sumidero = "0.0%"

\* C14: the pass after the last one the cap allows raises RuntimeError and
\* find_max_flow does not return: that end differs from Done in the
\* exception raised, and the total accumulated so far is stored nowhere
\* (max_flow_value, the per-edge flows and the cut stay as constructed).
C14_NotConverged ==
  /\ (phase = "not_converged") <=> (iterations > max_iterations)
  /\ phase = "not_converged" =>
       /\ raised = "RuntimeError"
       /\ max_flow_value = 0
       /\ \A e \in OriginalEdges : flow[e] = 0
       /\ min_cut_S = {} /\ min_cut_T = {}
       /\ cut_edges = <<>> /\ cut_capacity = 0
       /\ ret = NoRet
  /\ Done => raised = "none"

\* the cap hit after flow had been pushed
C14_Witness ==
  /\ phase = "not_converged"
  /\ raised = "RuntimeError"
  /\ max_flow >= 2
  /\ max_flow_value = 0

\* C15: at Done, whatever the node identifiers, get_flow_details returns
\* without error one row per original edge ordered by origin then
\* destination, and get_min_cut_info returns without error the groups S and
\* T as sorted lists with the cut edges and the cut capacity.
InNodeOrder(names) ==
  \A k, l \in 1..Len(names) :
    k < l => IndexOf(nodes, names[k]) < IndexOf(nodes, names[l])

C15_ReportsNeverFail ==
  Done =>
    /\ ret.op = "get_flow_details" =>
         /\ raised = "none"
         /\ Len(ret.val) = Cardinality(OriginalEdges)
         /\ {<<ret.val[k].origen, ret.val[k].destino>> : k \in 1..Len(ret.val)}
              = OriginalEdges
         /\ \A k, l \in 1..Len(ret.val) :
              k < l => KeyLess(<<IndexOf(nodes, ret.val[k].origen),
                                 IndexOf(nodes, ret.val[k].destino)>>,
                               <<IndexOf(nodes, ret.val[l].origen),
                                 IndexOf(nodes, ret.val[l].destino)>>)
    /\ ret.op = "get_min_cut_info" =>
         /\ raised = "none"
         /\ Range(ret.val.grupo_S) = min_cut_S
         /\ Range(ret.val.grupo_T) = min_cut_T
         /\ InNodeOrder(ret.val.grupo_S)
         /\ InNodeOrder(ret.val.grupo_T)
         /\ ret.val.aristas_corte = cut_edges
         /\ ret.val.capacidad_corte = cut_capacity

\* C16: in every state from construction on, through any number of
\* augmentations, no entry of the residual matrix is negative.
C16_ResidualNonNegative ==
  \A i \in DOMAIN residual : \A j \in DOMAIN residual[i] : residual[i][j] >= 0

\* after two augmentations an original edge is used up and a reverse arc
\* has more residual capacity than the network gave it
C16_Witness ==
  /\ phase = "searching"
  /\ Len(augmenting_paths) >= 2
  /\ \E i, j \in DOMAIN residual :
       residual[i][j] = 0 /\ CapacityMatrix[i][j] > 0
  /\ \E i, j \in DOMAIN residual : residual[i][j] > CapacityMatrix[i][j]

\* C17: one augmentation with bottleneck b along the found path lowers
\* residual[u][v] by b and raises residual[v][u] by b for each consecutive
\* pair (u, v) of the path, leaves every other entry as it was, appends the
\* path to augmenting_paths and adds exactly b to the total.
C17_Step ==
  (phase = "augmenting" /\ phase' = "searching") =>
    LET arcs == IndexArcs(path_indices) IN
    /\ DOMAIN residual' = DOMAIN residual
    /\ \A a \in arcs :
         /\ residual'[a[1]][a[2]] = residual[a[1]][a[2]] - path_flow
         /\ residual'[a[2]][a[1]] = residual[a[2]][a[1]] + path_flow
    /\ \A i, j \in DOMAIN residual :
         (<<i, j>> \notin arcs /\ <<j, i>> \notin arcs) =>
           residual'[i][j] = residual[i][j]
    /\ augmenting_paths' =
         Append(augmenting_paths,
                [k \in 1..Len(path_indices) |-> nodes[path_indices[k] + 1]])
    /\ max_flow' = max_flow + path_flow

C17_AugmentationFrame == [][C17_Step]_vars

\* an augmentation along three arcs, one of them no edge of the network
C17_Witness ==
  /\ phase = "searching"
  /\ Len(augmenting_paths) >= 2
  /\ Len(path_indices) = 4
  /\ augmenting_paths[Len(augmenting_paths)] = NamesOf(path_indices)
  /\ \E a \in ArcsOf(augmenting_paths[Len(augmenting_paths)]) :
       a \notin OriginalEdges

\* C18: every recorded path runs from the source to the sink without
\* visiting a node twice; when a path is found every arc of it has strictly
\* positive residual capacity and the amount to push is the minimum of
\* those capacities.
IsSimple(p) == \A k, l \in 1..Len(p) : p[k] = p[l] => k = l

C18_PathsAreValid ==
  /\ \A k \in 1..Len(augmenting_paths) :
       LET p == augmenting_paths[k] IN
       /\ Len(p) >= 2
       /\ p[1] = fuente
       /\ p[Len(p)] = sumidero
       /\ IsSimple(p)
  /\ phase = "augmenting" =>
       /\ Len(path_indices) >= 2
       /\ path_indices[1] = source_idx
       /\ path_indices[Len(path_indices)] = sink_idx
       /\ IsSimple(path_indices)
       /\ \A a \in IndexArcs(path_indices) : residual[a[1]][a[2]] > 0
       /\ \A a \in IndexArcs(path_indices) : path_flow <= residual[a[1]][a[2]]
       /\ \E a \in IndexArcs(path_indices) : path_flow = residual[a[1]][a[2]]

\* a path whose smallest residual capacity is not on the arc into the sink
C18_Witness ==
  /\ phase = "augmenting"
  /\ Len(augmenting_paths) >= 1
  /\ Len(path_indices) >= 3
  /\ path_flow < residual[path_indices[Len(path_indices) - 1]][sink_idx]

\* C19 as claimed: every path the search returns has the fewest arcs among
\* the source-to-sink paths of strictly positive residual capacity.
C19_ShortestPath ==
  phase = "augmenting" =>
    \A q \in PositivePaths(residual) : Len(path_indices) <= Len(q)

\* C19 as amended: the search is depth-first with the neighbours tried in
\* increasing index: it finds a path whenever one of strictly positive
\* residual capacity exists, and the path it returns is the first of those
\* paths in the lexicographic order of node indices, whatever its length.
C19_DepthFirstPath ==
  /\ phase = "augmenting" =>
       /\ path_indices \in PositivePaths(residual)
       /\ \A q \in PositivePaths(residual) :
            q = path_indices \/ LexLess(path_indices, q)
  /\ Done => PositivePaths(residual) = {}

\* the path returned is longer than another positive path
C19_Witness ==
  /\ phase = "augmenting"
  /\ path_indices \in PositivePaths(residual)
  /\ \E q \in PositivePaths(residual) : Len(q) < Len(path_indices)

\* C20: after find_max_flow returns, min_cut_S is exactly the set of nodes
\* reachable from the source through arcs of strictly positive residual
\* capacity in the terminal matrix, min_cut_T is its complement, cut_edges
\* is exactly the set of original edges from S to T, and cut_capacity is the
\* sum of their original capacities.
C20_MinCutDefinition ==
  Done =>
    /\ min_cut_S =
         {nodes[i + 1] : i \in ResidualClosure(residual, {source_idx})}
    /\ min_cut_T = Range(nodes) \ min_cut_S
    /\ Range(cut_edges) =
         {e \in OriginalEdges : e[1] \in min_cut_S /\ e[2] \in min_cut_T}
    /\ IsSimple(cut_edges)
    /\ cut_capacity =
         SumOver({e \in OriginalEdges : e[1] \in min_cut_S /\ e[2] \in min_cut_T},
                 OriginalCapacity)

\* a cut of two edges whose source side holds a node that is no neighbour
\* of the source in the terminal matrix
C20_Witness ==
  /\ Done
  /\ Len(cut_edges) >= 2
  /\ cut_capacity > 0
  /\ \E x \in min_cut_S :
       x # fuente /\ residual[source_idx][IndexOf(nodes, x)] = 0

\* C21: when both (u,v) and (v,u) are original edges, an augmentation
\* changes the flow reported for such an edge only if the path runs along
\* the arc of that edge: a push along u->v leaves the flow reported for
\* (v,u) as it was.
ReportedFlow(res) == ComputeFlow(G_original, res)

AntiParallel == {e \in OriginalEdges : <<e[2], e[1]>> \in OriginalEdges}

C21_Step ==
  (phase = "augmenting" /\ phase' = "searching") =>
    \A e \in AntiParallel :
      <<IndexOf(nodes, e[1]), IndexOf(nodes, e[2])>> \notin IndexArcs(path_indices)
        => ReportedFlow(residual')[e] = ReportedFlow(residual)[e]

C21_AntiParallelIndependent == [][C21_Step]_vars

\* C26: whenever find_max_flow ends with the non-convergence error, a
\* source-to-sink path of strictly positive residual capacity still exists
\* in the current residual matrix; a run whose augmentations are no more
\* than the cap ends at Done.
C26_RaisedOnlyWhenNotConverged ==
  /\ phase = "not_converged" => PositivePaths(residual) # {}
  /\ (phase \in {"not_converged", "done"}
        /\ PositivePaths(residual) = {}
        /\ Len(augmenting_paths) <= max_iterations)
       => Done

\* C29: at Done the rows of get_flow_details and the count of get_summary
\* agree on saturation: a row is flagged saturated exactly when its edge
\* has flow equal to capacity and capacity greater than 0, and the number of
\* flagged rows is the summary's count of saturated edges.
FlaggedRows(rows) == {k \in 1..Len(rows) : rows[k].saturada}

C29_SaturationReportsAgree ==
  (Done /\ ret.op = "get_flow_details" /\ raised = "none") =>
    /\ \A k \in 1..Len(ret.val) :
         ret.val[k].saturada <=>
           (ret.val[k].flujo = ret.val[k].capacidad /\ ret.val[k].capacidad > 0)
    /\ Cardinality(FlaggedRows(ret.val)) = Summary.aristas_saturadas

\* C27: on every accepted network the run never takes an internal-error
\* branch: the search never reports a recursion deeper than the node count,
\* every node of the walk back from the sink has a parent, and the
\* bottleneck of a found path is finite and strictly positive.
NodeCount == Cardinality(DOMAIN residual)

SearchNow == dfs(residual, source_idx, sink_idx, NewSearch(NodeCount), 0)

C27_NoInternalError ==
  /\ phase # "failed"
  /\ phase = "searching" =>
       /\ ~SearchNow.error
       /\ SearchNow.found =>
            /\ ~PathOf(residual, SearchNow.parent).orphan
            /\ ~PathOf(residual, SearchNow.parent).inf
            /\ PathOf(residual, SearchNow.parent).flow > 0
  /\ phase = "augmenting" =>
       /\ Len(path_indices) <= NodeCount
       /\ path_flow > 0

\* a found path through every node of a four-node network: the deepest
\* recursion the search can make
C27_Witness ==
  /\ phase = "augmenting"
  /\ NodeCount >= 4
  /\ Len(path_indices) = NodeCount
  /\ Len(augmenting_paths) >= 1

\* C28: from construction on, for every ordered pair of distinct nodes the
\* two residual entries of the pair sum to the two original capacities of
\* the pair (0 for a missing edge), and the diagonal entries keep the value
\* the constructor gave them.
C28_PairSumsConserved ==
  phase \in {"ready", "searching", "augmenting", "done", "not_converged"} =>
    \A i, j \in DOMAIN residual :
      IF i = j THEN residual[i][i] = CapacityMatrix[i][i]
      ELSE residual[i][j] + residual[j][i]
             = CapacityMatrix[i][j] + CapacityMatrix[j][i]

\* after two augmentations, on a network with a self-loop of positive
\* capacity and an anti-parallel pair whose entries have both moved
C28_Witness ==
  /\ phase = "searching"
  /\ Len(augmenting_paths) >= 2
  /\ \E i \in DOMAIN residual : residual[i][i] > 0
  /\ \E i, j \in DOMAIN residual :
       /\ i # j
       /\ CapacityMatrix[i][j] > 0
       /\ CapacityMatrix[j][i] > 0
       /\ residual[i][j] # CapacityMatrix[i][j]

\* C23: after enforce_constraints(G, source, sink) with source # sink the
\* graph has no edge into the source, none out of the sink, no edge from
\* source to sink and no two nodes joined in both directions; every edge it
\* has was an edge before the call, with the same capacity, and its nodes
\* are the nodes it had.
C23_EnforceConstraints ==
  ret.op = "enforce_constraints" =>
    /\ \A e \in DOMAIN G.adj :
         /\ e[2] # fuente
         /\ e[1] # sumidero
         /\ <<e[2], e[1]>> \notin DOMAIN G.adj
         /\ e \in DOMAIN ret.val.adj
         /\ G.adj[e] = ret.val.adj[e]
    /\ <<fuente, sumidero>> \notin DOMAIN G.adj
    /\ G.nodes = ret.val.nodes

\* a call that found an edge into the source and two middle nodes joined in
\* both directions, and kept one edge of the pair
C23_Witness ==
  /\ ret.op = "enforce_constraints"
  /\ \E e \in DOMAIN ret.val.adj : e[2] = fuente /\ e[1] # fuente
  /\ \E e \in DOMAIN ret.val.adj :
       /\ e[1] # e[2]
       /\ {e[1], e[2]} \cap {fuente, sumidero} = {}
       /\ <<e[2], e[1]>> \in DOMAIN ret.val.adj
       /\ e \in DOMAIN G.adj

\* C24: from a graph with no self-loop and no two nodes joined in both
\* directions, every sequence of add_or_update_edge_no_bidirectional calls
\* keeps the graph so; a call with u = v leaves the graph as it was, and a
\* call with u # v leaves (u,v) with the given capacity, (v,u) absent and
\* every other edge as it was.
C24_NoBidirectional ==
  /\ phase = "new" =>
       \A e \in DOMAIN G.adj : e[1] # e[2] /\ <<e[2], e[1]>> \notin DOMAIN G.adj
  /\ ret.op = "add_or_update_edge_no_bidirectional" =>
       LET u == ret.val.u
           v == ret.val.v
           before == ret.val.G
       IN IF u = v THEN G = before
          ELSE /\ <<u, v>> \in DOMAIN G.adj
               /\ G.adj[<<u, v>>] = IntData(ret.val.capacity)
               /\ <<v, u>> \notin DOMAIN G.adj
               /\ (DOMAIN G.adj) \ {<<u, v>>} = (DOMAIN before.adj) \ {<<u, v>>, <<v, u>>}
               /\ \A e \in (DOMAIN G.adj) \ {<<u, v>>} : G.adj[e] = before.adj[e]

\* a call that replaced the opposite edge while another edge stayed
C24_Witness ==
  /\ ret.op = "add_or_update_edge_no_bidirectional"
  /\ ret.val.u # ret.val.v
  /\ <<ret.val.v, ret.val.u>> \in DOMAIN ret.val.G.adj
  /\ Cardinality(DOMAIN G.adj) >= 2

\* C25: when a second call of find_max_flow on the same instance has
\* returned, it returned the value the first call returned, max_flow_value
\* equals cut_capacity, and the per-edge flows, the augmenting paths and the
\* two sides of the cut are as the first call left them.
C25_SecondCallSame ==
  (Done /\ Len(returned) >= 2) =>
    /\ returned[2].value = returned[1].value
    /\ max_flow_value = cut_capacity
    /\ flow = returned[1].flow
    /\ augmenting_paths = returned[1].augmenting_paths
    /\ min_cut_S = returned[1].min_cut_S
    /\ min_cut_T = returned[1].min_cut_T

\* C22: the caller's graph is never changed and G_original stays the copy
\* taken at construction; a call on one instance leaves every field of the
\* other as it was; and each of two instances built from the same graph
\* reaches the state it reaches alone: its own replay of the network in
\* every state of its run, the minimum cut capacity at the end.
Alone ==
  Replay([residual |-> CapacityMatrix, paths |-> <<>>, total |-> 0],
         Len(other.augmenting_paths))

C22_Alone ==
  /\ phase \in {"ready", "searching", "augmenting", "done"} =>
       /\ G_original = G
       /\ residual = Replayed(Len(augmenting_paths)).residual
       /\ augmenting_paths = Replayed(Len(augmenting_paths)).paths
  /\ Done =>
       /\ max_flow_value = MinimumCutCapacity
       /\ cut_capacity = MinimumCutCapacity
       /\ flow = ComputeFlow(G, residual)
  /\ other.phase \in {"ready", "done"} =>
       /\ other.G_original = G
       /\ other.residual = Alone.residual
       /\ other.augmenting_paths = Alone.paths
  /\ other.phase = "done" =>
       /\ PositivePaths(other.residual) = {}
       /\ other.max_flow_value = MinimumCutCapacity
       /\ other.cut_capacity = MinimumCutCapacity
       /\ other.flow = ComputeFlow(G, other.residual)

C22_Step ==
  /\ G' = G
  /\ phase \notin {"new", "invalid_input"} => G_original' = G_original
  /\ other.phase \in {"ready", "done"} => other'.G_original = other.G_original
  /\ other'.phase = other.phase => other' = other
  /\ other'.phase # other.phase => <<phase, fields, locals>>' = <<phase, fields, locals>>

C22_OwnsItsState == []C22_Alone /\ [][C22_Step]_vars

\* both instances have returned on a network that took the first one at
\* least two augmentations, the second having run while the first was in
\* the middle of its own run
C22_Witness ==
  /\ Done
  /\ other.phase = "done"
  /\ Len(augmenting_paths) >= 2
  /\ other.augmenting_paths = augmenting_paths
  /\ other.residual = residual
  /\ max_flow_value > 0

====
